---- MODULE Spec2Model ----
(***************************************************************************)
(* A model of base_app.py: the two array helpers preprocess_image and      *)
(* postprocess_mask, and the Streamlit script that wires them to the       *)
(* Predictions page, its widgets, the cached model loaders and the         *)
(* session slot "generated_mask".                                          *)
(*                                                                         *)
(* Arrays are numpy arrays: a shape and the elements in row-major order.   *)
(* An element is the rational data[k] / den, so that the division by       *)
(* 255.0 and the comparison with 0.5 are computed exactly.                 *)
(***************************************************************************)
EXTENDS Integers, Sequences, FiniteSets, TLC

VARIABLES
  \* preprocess_image applied to one input
  pre_image, pre_target, pre_result,
  \* postprocess_mask applied to one input, and applied again to its output
  post_mask, post_result, post_again, post_again_array,
  \* the Streamlit process and one browser session after another
  session, session_state, height_cache, segmentation_cache, disk_loads,
  \* the widgets as the browser holds them, the rerun asked for, the run going on
  page, model_type, uploaded_file, pending, pc, run_in,
  \* what the browser shows, what the last run to reach the Generate Mask handler
  \* did, where the slot's mask came from, the runs of the other sessions
  shown, last_run, mask_source, other_pc

preVars == <<pre_image, pre_target, pre_result>>
postVars == <<post_mask, post_result, post_again, post_again_array>>
appVars == <<session, session_state, height_cache, segmentation_cache, disk_loads,
             page, model_type, uploaded_file, pending, pc, run_in,
             shown, last_run, mask_source, other_pc>>
vars == <<preVars, postVars, appVars>>

\* Largest width and height of an input image, and largest axis length of a tensor.
MaxDim == 2
\* Largest width and height asked of preprocess_image.
MaxTarget == 2
\* Largest number of elements of a tensor handed to postprocess_mask.
MaxElems == 4
\* Largest number of axes of a tensor handed to postprocess_mask.
MaxAxes == 5
\* Browser sessions opened against the one process.
MaxSessions == 2
\* Side of the model input on the Predictions page; stands for the 256 of
\* preprocess_image's default target_size, scaled down to keep the arrays small.
InputSide == 2

None == [kind |-> "None"]

RECURSIVE Product(_)
Product(shape) == IF shape = <<>> THEN 1 ELSE Head(shape) * Product(Tail(shape))

\* ------------------------------------------------------------------ PIL

\* Number of bands of a PIL mode.
Bands(mode) ==
  CASE mode = "L" -> 1
    [] mode = "I" -> 1
    [] mode = "RGB" -> 3
    [] mode = "RGBA" -> 4

\* A PIL image: size is (width, height), px the pixels row by row, each a tuple
\* of band values.
ImageOf(mode, w, h, px) == [kind |-> "Image", mode |-> mode, size |-> <<w, h>>, px |-> px]

\* Image.resize(size): size is (width, height). Each pixel of the result is the
\* source pixel under its centre. The images resized here are uniform or have
\* the size asked for: on those every resampling filter of PIL returns these
\* same pixels.
resize(image, size) ==
  LET w == image.size[1]
      h == image.size[2]
      w2 == size[1]
      h2 == size[2]
      src(k) == LET y == (k - 1) \div w2
                    x == (k - 1) % w2
                    sy == ((2 * y + 1) * h) \div (2 * h2)
                    sx == ((2 * x + 1) * w) \div (2 * w2)
                IN  image.px[sy * w + sx + 1]
  IN  ImageOf(image.mode, w2, h2, [k \in 1..(w2 * h2) |-> src(k)])

\* np.array(image): shape (height, width) for a one-band image and
\* (height, width, bands) otherwise.
np_array(image) ==
  LET b == Bands(image.mode)
      w == image.size[1]
      h == image.size[2]
  IN  [kind |-> "ndarray",
       shape |-> IF b = 1 THEN <<h, w>> ELSE <<h, w, b>>,
       data |-> [k \in 1..(h * w * b) |-> image.px[((k - 1) \div b) + 1][((k - 1) % b) + 1]],
       den |-> 1]

\* Image.fromarray of a 2-axis uint8 array: a mode "L" image of size (width, height).
Image_fromarray(arr) ==
  ImageOf("L", arr.shape[2], arr.shape[1], [k \in 1..Len(arr.data) |-> <<arr.data[k]>>])

\* ---------------------------------------------------------------- numpy

\* array / 255.0
DivideBy255(arr) == [arr EXCEPT !.den = arr.den * 255]

\* np.stack([a] * 3, axis=-1)
Stack3(arr) ==
  [arr EXCEPT !.shape = arr.shape \o <<3>>,
              !.data = [k \in 1..(3 * Len(arr.data)) |-> arr.data[((k - 1) \div 3) + 1]]]

\* np.expand_dims(a, axis=0)
ExpandDims0(arr) == [arr EXCEPT !.shape = <<1>> \o arr.shape]

\* ------------------------------------------------------ preprocess_image

preprocess_image(image, target_size) ==
  LET resized == resize(image, target_size)
      image_array == DivideBy255(np_array(resized))
      stacked == IF Len(image_array.shape) = 4 THEN Stack3(image_array) ELSE image_array
  IN  ExpandDims0(stacked)

\* ------------------------------------------------------ postprocess_mask

Ok(value) == [ok |-> TRUE, value |-> value]
Raise(error, message) == [ok |-> FALSE, error |-> error, message |-> message]

\* v/den >= 0.5: the threshold made inclusive.
AtLeastHalf(v, den) == 2 * v >= den
\* v/den < 0.5: the comparison turned round.
LessThanHalf(v, den) == 2 * v < den
\* v/den > 0.5
GreaterThanHalf(v, den) == 2 * v > den

\* b.astype(np.uint8): the scaling by 255 left out.
ScaleBy1(b) == IF b THEN 1 ELSE 0
\* b.astype(np.uint8) * 255
ScaleTo255(b) == IF b THEN 255 ELSE 0

\* mask[0, ..., 0] and mask[..., 0]: row i, column j, channel 0 of the first
\* h * w * c elements.
FirstChannel(arr, h, w, c) ==
  [kind |-> "ndarray", shape |-> <<h, w>>,
   data |-> [k \in 1..(h * w) |-> arr.data[(k - 1) * c + 1]], den |-> arr.den]

\* (mask > 0.5).astype(np.uint8) * 255
ThresholdMask(arr) ==
  [arr EXCEPT !.data = [k \in 1..Len(arr.data) |->
                          ScaleTo255(GreaterThanHalf(arr.data[k], arr.den))],
              !.den = 1]

\* postprocess_mask without its branch for 2 axes.
postprocess_mask_no_2d(mask) ==
  IF mask.kind # "ndarray"
  THEN Raise("AttributeError", <<"shape">>)
  ELSE LET n == Len(mask.shape) IN
       IF n = 4
       THEN Ok(Image_fromarray(ThresholdMask(
              FirstChannel(mask, mask.shape[2], mask.shape[3], mask.shape[4]))))
       ELSE IF n = 3
       THEN Ok(Image_fromarray(ThresholdMask(
              FirstChannel(mask, mask.shape[1], mask.shape[2], mask.shape[3]))))
       ELSE Raise("ValueError", <<"Unexpected mask shape: ", mask.shape>>)

\* postprocess_mask(mask). A value with no shape attribute (a PIL image) fails
\* at the first len(mask.shape).
postprocess_mask(mask) ==
  IF mask.kind # "ndarray"
  THEN Raise("AttributeError", <<"shape">>)
  ELSE LET n == Len(mask.shape) IN
       IF n = 4
       THEN Ok(Image_fromarray(ThresholdMask(
              FirstChannel(mask, mask.shape[2], mask.shape[3], mask.shape[4]))))
       ELSE IF n = 3
       THEN Ok(Image_fromarray(ThresholdMask(
              FirstChannel(mask, mask.shape[1], mask.shape[2], mask.shape[3]))))
       ELSE IF n = 2
       THEN Ok(Image_fromarray(ThresholdMask(mask)))
       ELSE Raise("ValueError", <<"Unexpected mask shape: ", mask.shape>>)

\* ------------------------------------------------- the helpers on their own

Modes == {"L", "I", "RGB", "RGBA"}

\* Two pixels of each mode: 8-bit bands hold 0..255, mode "I" holds 32-bit
\* integers (a 16-bit PNG carries up to 65535).
Palette(mode) ==
  CASE mode = "L" -> {<<0>>, <<255>>}
    [] mode = "I" -> {<<0>>, <<65535>>}
    [] mode = "RGB" -> {<<0, 128, 255>>, <<255, 255, 255>>}
    [] mode = "RGBA" -> {<<0, 128, 255, 255>>, <<0, 0, 0, 0>>}

PreImages ==
  UNION { UNION { UNION { { ImageOf(m, w, h, px) : px \in [1..(w * h) -> Palette(m)] }
                          : h \in 1..MaxDim }
                  : w \in 1..MaxDim }
          : m \in Modes }

PreTargets == (1..MaxTarget) \X (1..MaxTarget)

\* Every pixel of the image is the same.
Uniform(image) == \A k \in 1..Len(image.px) : image.px[k] = image.px[1]

\* Model outputs below, at and above the threshold: 0.4, 0.5, 0.6.
MaskValues == {4, 5, 6}

MaskShapes ==
  { s \in UNION { [1..n -> 1..MaxDim] : n \in 0..MaxAxes } : Product(s) <= MaxElems }

MaskInputs ==
  UNION { { [kind |-> "ndarray", shape |-> s, data |-> d, den |-> 10]
            : d \in [1..Product(s) -> MaskValues] }
          : s \in MaskShapes }

\* preprocess_image(image, target_size)
Preprocess ==
  /\ pre_result = None
  /\ pre_result' = preprocess_image(pre_image, pre_target)
  /\ UNCHANGED <<pre_image, pre_target, postVars, appVars>>

\* postprocess_mask(mask)
Postprocess ==
  /\ post_result = None
  /\ post_result' = postprocess_mask(post_mask)
  /\ UNCHANGED <<post_mask, post_again, post_again_array, preVars, appVars>>

\* postprocess_mask(postprocess_mask(mask)): the returned PIL image handed back
Reapply ==
  /\ post_result # None
  /\ post_result.ok
  /\ post_again = None
  /\ post_again' = postprocess_mask(post_result.value)
  /\ UNCHANGED <<post_mask, post_result, post_again_array, preVars, appVars>>

\* postprocess_mask(np.array(postprocess_mask(mask))): the returned image's array
ReapplyArray ==
  /\ post_result # None
  /\ post_result.ok
  /\ post_again_array = None
  /\ post_again_array' = postprocess_mask(np_array(post_result.value))
  /\ UNCHANGED <<post_mask, post_result, post_again, preVars, appVars>>

\* ------------------------------------------------------- the Streamlit script

Pages == {"Home", "Predictions", "Images and Masks", "Insights", "Meet the team"}
ModelTypes == {"Height Model", "Segmentation Model"}

\* The widgets' values before the user touches them: a selectbox shows its first
\* option, the uploader holds no file.
DefaultPage == "Home"
DefaultModelType == "Height Model"
NoImage == "none"

\* The sample buttons in the order the script creates them.
SampleLabels == <<"Sample Image 1", "Sample Image 2", "Sample Image 3">>

sample_images ==
  [label \in {SampleLabels[i] : i \in DOMAIN SampleLabels} |->
     CASE label = "Sample Image 1" -> "test_image1.jpg"
       [] label = "Sample Image 2" -> "test_image2.jpg"
       [] label = "Sample Image 3" -> "test_image3.jpg"]

\* The file a user uploads: a colour PNG.
Uploads == {"upload_rgb.png"}

\* Image.open(path): the three samples are colour JPEGs. The files are not part
\* of the source; each stands for an image of its mode.
Image_open(path) ==
  CASE path = "test_image1.jpg" -> ImageOf("RGB", 1, 1, << <<0, 128, 255>> >>)
    [] path = "test_image2.jpg" -> ImageOf("RGB", 2, 1, << <<255, 255, 255>>, <<255, 255, 255>> >>)
    [] path = "test_image3.jpg" -> ImageOf("RGB", 1, 2, << <<0, 128, 255>>, <<0, 128, 255>> >>)
    [] path = "upload_rgb.png" -> ImageOf("RGB", 1, 1, << <<255, 255, 255>> >>)

\* What the loaded Keras model answers to predict(x). The model file is not part
\* of the program: it rejects the input, or returns a map over the input's
\* spatial axes with every value below or above the threshold, or a tensor with
\* one axis more.
Responses == {"raise", "low", "high", "five_axes"}

predict(x, response) ==
  LET h == x.shape[2]
      w == x.shape[3]
      v == IF response = "low" THEN 4 ELSE 6
  IN  IF response = "raise"
      THEN Raise("ValueError", <<"predict">>)
      ELSE Ok([kind |-> "ndarray",
               shape |-> IF response = "five_axes" THEN <<1, 1, h, w, 1>> ELSE <<1, h, w, 1>>,
               data |-> [k \in 1..(h * w) |-> v],
               den |-> 10])

\* tf.keras.models.load_model('model.h5')
load_model(file, loader) == [kind |-> "model", file |-> file, loader |-> loader]

\* load_height_model() without @st.cache_resource: the body runs in every run.
load_height_model_uncached(cache) ==
  [model |-> load_model("model.h5", "load_height_model"), loaded |-> 1]
\* @st.cache_resource load_height_model(): the body runs on a miss only. The
\* cache holds a lock from the miss to the store, so the call is one step for
\* every thread.
load_height_model(cache) ==
  IF cache # None
  THEN [model |-> cache, loaded |-> 0]
  ELSE [model |-> load_model("model.h5", "load_height_model"), loaded |-> 1]

\* @st.cache_resource load_segmentation_model(): the body runs on a miss only.
load_segmentation_model(cache) ==
  IF cache # None
  THEN [model |-> cache, loaded |-> 0]
  ELSE [model |-> load_model("model.h5", "load_segmentation_model"), loaded |-> 1]

\* st.session_state["generated_mask"] = None without the `if` around it.
ResetSessionState(state) == [generated_mask |-> None]
\* if "generated_mask" not in st.session_state: st.session_state["generated_mask"] = None
InitSessionState(state) ==
  IF "generated_mask" \in DOMAIN state THEN state ELSE [generated_mask |-> None]

\* The loop over the sample buttons: every button that reads True assigns
\* selected_image, so the last of them in the order of sample_images stays.
\* samples is the set of labels whose button reads True in this run.
RECURSIVE SampleLoop(_, _, _)
SampleLoop(idx, samples, selected_image) ==
  IF idx > Len(SampleLabels) THEN selected_image
  ELSE SampleLoop(idx + 1, samples,
                  IF SampleLabels[idx] \in samples
                  THEN sample_images[SampleLabels[idx]]
                  ELSE selected_image)

\* selected_image after the sample buttons and the uploader.
SelectedImage(samples, uploaded) ==
  IF uploaded # NoImage THEN uploaded ELSE SampleLoop(1, samples, NoImage)

\* The body of `if st.button("Generate Mask")` up to the assignment of the slot.
GenerateMask(selected_image, response) ==
  LET preprocessed_image == preprocess_image(Image_open(selected_image), <<InputSide, InputSide>>)
      mask == predict(preprocessed_image, response)
  IN  IF ~mask.ok THEN [ok |-> FALSE, step |-> "predict"]
      ELSE LET mask_image == postprocess_mask(mask.value)
           IN  IF mask_image.ok THEN mask_image ELSE [ok |-> FALSE, step |-> "postprocess"]

\* The image lines 128-148 select on the page the run draws.
Selected(in) ==
  IF in.page = "Predictions" THEN SelectedImage(in.samples, in.uploaded) ELSE NoImage

\* What a run leaves when it has come through the Generate Mask handler (line
\* 160), given what the handler returned (None when it did not run): the slot,
\* and on the screen the elements drawn so far, above what the run before left
\* further down.
Handled(in, state, source, screen, selected_image, result) ==
  LET generating == selected_image # NoImage /\ in.generate
      stored == generating /\ result.ok
  IN  [session_state |-> [state EXCEPT !.generated_mask = IF stored THEN result.value ELSE @],
       mask_source |-> IF stored THEN selected_image ELSE source,
       last_run |-> [settled |-> in.settled,
                     finished |-> FALSE,
                     handler |-> IF ~in.generate THEN "none"
                                 ELSE IF ~generating THEN "not_run"
                                 ELSE IF stored THEN "ok"
                                 ELSE result.step],
       shown |-> [screen EXCEPT !.page = in.page,
                                !.original = selected_image,
                                !.generate_button = selected_image # NoImage]]

\* The script from st.title (line 94) through the Generate Mask handler.
PredictionsPage(in, state, source, screen, selected_image) ==
  Handled(in, state, source, screen, selected_image,
          IF selected_image # NoImage /\ in.generate
          THEN GenerateMask(selected_image, in.response)
          ELSE None)

Page(in, state, source, screen) ==
  PredictionsPage(in, state, source, screen, Selected(in))

\* The screen when the run has come to its end: the slot is drawn next to the
\* image when it holds a mask, then the Run Model button, whose handler writes
\* nothing but page elements. A handler that raised ended the script at its line.
Drawn(in, state, handler, selected_image) ==
  [sidebar |-> TRUE,
   page |-> in.page,
   original |-> selected_image,
   generate_button |-> selected_image # NoImage,
   mask |-> IF selected_image # NoImage /\ handler \notin {"predict", "postprocess"}
            THEN state.generated_mask ELSE None,
   run_button |-> selected_image # NoImage /\ handler \notin {"predict", "postprocess"}]

Display(in, state, handler) == Drawn(in, state, handler, Selected(in))

\* Where a run that has come to line 92 (from = "load_height") or to line 93
\* (from = "load_segmentation") stands next. A loader that finds its handle in
\* the cache makes no st.* call and changes nothing, so the run goes through it
\* and cannot be stopped there; a loader that has to load is a step of its own.
Position(from, hcache, scache) ==
  IF from = "load_height" /\ load_height_model(hcache).loaded = 1 THEN "load_height"
  ELSE IF load_segmentation_model(scache).loaded = 1 THEN "load_segmentation"
  ELSE "page"

\* Where the run of another session stands, of which only the loads matter: it is
\* kept while the run stands before a loader that has to load.
OtherPosition(from, hcache, scache) ==
  IF from = "idle" \/ Position(from, hcache, scache) = "page" THEN "idle"
  ELSE Position(from, hcache, scache)

\* No rerun asked for.
NoRequest ==
  [requested |-> FALSE, samples |-> {}, generate |-> FALSE, settled |-> FALSE]

\* No run in progress.
NoRun ==
  [page |-> DefaultPage, uploaded |-> NoImage, samples |-> {}, generate |-> FALSE,
   settled |-> FALSE]

\* Nothing on screen.
NotShown ==
  [sidebar |-> FALSE, page |-> "none", original |-> NoImage, generate_button |-> FALSE,
   mask |-> None, run_button |-> FALSE]

\* No run of the session has come to the Generate Mask handler.
NoLastRun == [settled |-> FALSE, finished |-> FALSE, handler |-> "none"]

\* A browser connects (or reloads): a fresh session state and fresh widgets, and
\* a first run asked for; the session before it ends. The process and its
\* resource cache stay.
NewSession ==
  /\ session < MaxSessions
  /\ session' = session + 1
  /\ session_state' = <<>>
  /\ page' = DefaultPage
  /\ model_type' = DefaultModelType
  /\ uploaded_file' = NoImage
  /\ pending' = [NoRequest EXCEPT !.requested = TRUE]
  /\ pc' = "idle"
  /\ run_in' = NoRun
  /\ shown' = NotShown
  /\ last_run' = NoLastRun
  /\ mask_source' = NoImage
  /\ UNCHANGED <<height_cache, segmentation_cache, disk_loads, other_pc, preVars, postVars>>

\* A user event reaches the script runner: it asks for a rerun. A run that is
\* going on is stopped at the st.* call it stands at, and what it has done
\* stays. Requests that wait together become one: the widgets hold their latest
\* values and every button clicked reads True. `settled` marks a request that is
\* one click on Generate Mask and nothing else, made while no run was going on
\* or waiting.
Request(samples, generate) ==
  /\ pending' = [requested |-> TRUE,
                 samples |-> pending.samples \cup samples,
                 generate |-> pending.generate \/ generate,
                 settled |-> generate /\ ~pending.requested /\ pc = "idle"]
  /\ pc' = "idle"
  /\ run_in' = NoRun
  /\ UNCHANGED <<session, session_state, height_cache, segmentation_cache, disk_loads,
                 shown, last_run, mask_source, other_pc, preVars, postVars>>

\* The sidebar selectbox "Select Page", on screen once a run has created it.
SelectPage ==
  /\ shown.sidebar
  /\ \E p \in Pages \ {page} : page' = p
  /\ UNCHANGED <<model_type, uploaded_file>>
  /\ Request({}, FALSE)

\* The selectbox "Select Model Type".
SelectModelType ==
  /\ shown.page = "Predictions"
  /\ \E t \in ModelTypes \ {model_type} : model_type' = t
  /\ UNCHANGED <<page, uploaded_file>>
  /\ Request({}, FALSE)

\* One of the buttons "Sample Image 1..3".
ClickSample ==
  /\ shown.page = "Predictions"
  /\ UNCHANGED <<page, model_type, uploaded_file>>
  /\ \E label \in DOMAIN sample_images : Request({label}, FALSE)

\* A file dropped on the uploader (replacing the one it holds).
UploadFile ==
  /\ shown.page = "Predictions"
  /\ \E f \in Uploads \ {uploaded_file} : uploaded_file' = f
  /\ UNCHANGED <<page, model_type>>
  /\ Request({}, FALSE)

\* The uploader's file removed.
RemoveFile ==
  /\ shown.page = "Predictions"
  /\ uploaded_file # NoImage
  /\ uploaded_file' = NoImage
  /\ UNCHANGED <<page, model_type>>
  /\ Request({}, FALSE)

\* The button "Generate Mask", on screen since the last run that reached it.
ClickGenerateMask ==
  /\ shown.generate_button
  /\ UNCHANGED <<page, model_type, uploaded_file>>
  /\ Request({}, TRUE)

\* The button "Run Model", on screen since the last run that reached it. Its
\* handler draws the prediction of the model chosen and stores nothing.
ClickRunModel ==
  /\ shown.run_button
  /\ UNCHANGED <<page, model_type, uploaded_file>>
  /\ Request({}, FALSE)

\* The selectbox "Select Image and Mask Pair" of the page Images and Masks: the
\* pair chosen is drawn and nothing else reads it.
SelectPair ==
  /\ shown.page = "Images and Masks"
  /\ UNCHANGED <<page, model_type, uploaded_file>>
  /\ Request({}, FALSE)

\* "Download as PDF" on the Home page: a rerun and nothing else.
ClickDownload ==
  /\ shown.page = "Home"
  /\ UNCHANGED <<page, model_type, uploaded_file>>
  /\ Request({}, FALSE)

\* The script runner starts the run asked for, with the widget values of the
\* request. The run goes from the top of the script through the sidebar and the
\* style sheet (lines 10-57).
StartRun ==
  /\ session > 0
  /\ pending.requested
  /\ run_in' = [page |-> page, uploaded |-> uploaded_file, samples |-> pending.samples,
                generate |-> pending.generate, settled |-> pending.settled]
  /\ pending' = NoRequest
  /\ shown' = [shown EXCEPT !.sidebar = TRUE]
  /\ pc' = "init"
  /\ UNCHANGED <<session, session_state, height_cache, segmentation_cache, disk_loads, page,
                 model_type, uploaded_file, last_run, mask_source, other_pc, preVars, postVars>>

\* Lines 60-62, and on to the first loader that has to load.
InitState ==
  /\ pc = "init"
  /\ session_state' = InitSessionState(session_state)
  /\ pc' = Position("load_height", height_cache, segmentation_cache)
  /\ UNCHANGED <<session, height_cache, segmentation_cache, disk_loads, page, model_type,
                 uploaded_file, pending, run_in, shown, last_run, mask_source, other_pc,
                 preVars, postVars>>

\* height_model = load_height_model()
LoadHeight ==
  /\ pc = "load_height"
  /\ LET height == load_height_model(height_cache)
     IN  /\ height_cache' = height.model
         /\ disk_loads' = [disk_loads EXCEPT !.height = @ + height.loaded]
  /\ pc' = Position("load_segmentation", height_cache, segmentation_cache)
  /\ other_pc' = OtherPosition(other_pc, height_cache', segmentation_cache)
  /\ UNCHANGED <<session, session_state, segmentation_cache, page, model_type, uploaded_file,
                 pending, run_in, shown, last_run, mask_source, preVars, postVars>>

\* segmentation_model = load_segmentation_model()
LoadSegmentation ==
  /\ pc = "load_segmentation"
  /\ LET segmentation == load_segmentation_model(segmentation_cache)
     IN  /\ segmentation_cache' = segmentation.model
         /\ disk_loads' = [disk_loads EXCEPT !.segmentation = @ + segmentation.loaded]
  /\ pc' = "page"
  /\ other_pc' = OtherPosition(other_pc, height_cache, segmentation_cache')
  /\ UNCHANGED <<session, session_state, height_cache, page, model_type, uploaded_file,
                 pending, run_in, shown, last_run, mask_source, preVars, postVars>>

\* Lines 94-160. The handler makes no st.* call from the button to the
\* assignment of the slot, so it is not stopped half way.
Store(out) ==
  /\ session_state' = out.session_state
  /\ mask_source' = out.mask_source
  /\ shown' = out.shown
  /\ last_run' = out.last_run

RunPage ==
  /\ pc = "page"
  /\ \E r \in Responses :
       Store(Page([page |-> run_in.page, uploaded |-> run_in.uploaded,
                   samples |-> run_in.samples, generate |-> run_in.generate,
                   settled |-> run_in.settled, response |-> r],
                  session_state, mask_source, shown))
  /\ pc' = "display"
  /\ UNCHANGED <<session, height_cache, segmentation_cache, disk_loads, page, model_type,
                 uploaded_file, pending, run_in, other_pc, preVars, postVars>>

\* Lines 163-300 and the end of the run: widgets the run did not create (those
\* of the Predictions page, on any other page) lose their values.
FinishRun ==
  /\ pc = "display"
  /\ shown' = Display(run_in, session_state, last_run.handler)
  /\ last_run' = [last_run EXCEPT !.finished = TRUE]
  /\ model_type' = IF run_in.page = "Predictions" THEN model_type ELSE DefaultModelType
  /\ uploaded_file' = IF run_in.page = "Predictions" THEN uploaded_file ELSE NoImage
  /\ pc' = "idle"
  /\ run_in' = NoRun
  /\ UNCHANGED <<session, session_state, height_cache, segmentation_cache, disk_loads, page,
                 pending, mask_source, other_pc, preVars, postVars>>

\* The runs of the other sessions of the process, each in a thread of its own.
\* They share nothing with this session but the resource cache, so what is kept
\* of them is how far the run of one of them has come: it starts (or is stopped
\* and starts again), passes line 92, passes line 93.
OtherStartRun ==
  /\ session > 0
  /\ other_pc' = OtherPosition("load_height", height_cache, segmentation_cache)
  /\ other_pc' # other_pc
  /\ UNCHANGED <<session, session_state, height_cache, segmentation_cache, disk_loads, page,
                 model_type, uploaded_file, pending, pc, run_in, shown, last_run, mask_source,
                 preVars, postVars>>

OtherLoadHeight ==
  /\ other_pc = "load_height"
  /\ LET height == load_height_model(height_cache)
     IN  /\ height_cache' = height.model
         /\ disk_loads' = [disk_loads EXCEPT !.height = @ + height.loaded]
  /\ other_pc' = OtherPosition("load_segmentation", height_cache', segmentation_cache)
  /\ UNCHANGED <<session, session_state, segmentation_cache, page, model_type, uploaded_file,
                 pending, pc, run_in, shown, last_run, mask_source, preVars, postVars>>

OtherLoadSegmentation ==
  /\ other_pc = "load_segmentation"
  /\ LET segmentation == load_segmentation_model(segmentation_cache)
     IN  /\ segmentation_cache' = segmentation.model
         /\ disk_loads' = [disk_loads EXCEPT !.segmentation = @ + segmentation.loaded]
  /\ other_pc' = "idle"
  /\ UNCHANGED <<session, session_state, height_cache, page, model_type, uploaded_file,
                 pending, pc, run_in, shown, last_run, mask_source, preVars, postVars>>

\* The process has started and no browser has connected.
Init ==
  /\ pre_image = None /\ pre_target = None /\ pre_result = None
  /\ post_mask = None /\ post_result = None /\ post_again = None /\ post_again_array = None
  /\ session = 0
  /\ session_state = <<>>
  /\ height_cache = None
  /\ segmentation_cache = None
  /\ disk_loads = [height |-> 0, segmentation |-> 0]
  /\ page = DefaultPage
  /\ model_type = DefaultModelType
  /\ uploaded_file = NoImage
  /\ pending = NoRequest
  /\ pc = "idle"
  /\ run_in = NoRun
  /\ shown = NotShown
  /\ last_run = NoLastRun
  /\ mask_source = NoImage
  /\ other_pc = "idle"

Next ==
  \/ NewSession
  \/ SelectPage
  \/ SelectModelType
  \/ ClickSample
  \/ UploadFile
  \/ RemoveFile
  \/ ClickGenerateMask
  \/ ClickRunModel
  \/ ClickDownload
  \/ SelectPair
  \/ StartRun
  \/ InitState
  \/ LoadHeight
  \/ LoadSegmentation
  \/ RunPage
  \/ FinishRun
  \/ OtherStartRun
  \/ OtherLoadHeight
  \/ OtherLoadSegmentation

Spec == Init /\ [][Next]_vars

\* preprocess_image on its own: every uniform image with every target size, and
\* every image with the target size that is its own size.
InitPre ==
  /\ pre_image \in PreImages
  /\ pre_target \in PreTargets
  /\ Uniform(pre_image) \/ pre_image.size = pre_target
  /\ pre_result = None
  /\ post_mask = None /\ post_result = None /\ post_again = None /\ post_again_array = None
  /\ session = 0
  /\ session_state = <<>>
  /\ height_cache = None
  /\ segmentation_cache = None
  /\ disk_loads = [height |-> 0, segmentation |-> 0]
  /\ page = DefaultPage
  /\ model_type = DefaultModelType
  /\ uploaded_file = NoImage
  /\ pending = NoRequest
  /\ pc = "idle"
  /\ run_in = NoRun
  /\ shown = NotShown
  /\ last_run = NoLastRun
  /\ mask_source = NoImage
  /\ other_pc = "idle"

NextPre == Preprocess

SpecPre == InitPre /\ [][NextPre]_vars

\* postprocess_mask on its own: every tensor of the bounds.
InitPost ==
  /\ post_mask \in MaskInputs
  /\ post_result = None
  /\ post_again = None
  /\ post_again_array = None
  /\ pre_image = None /\ pre_target = None /\ pre_result = None
  /\ session = 0
  /\ session_state = <<>>
  /\ height_cache = None
  /\ segmentation_cache = None
  /\ disk_loads = [height |-> 0, segmentation |-> 0]
  /\ page = DefaultPage
  /\ model_type = DefaultModelType
  /\ uploaded_file = NoImage
  /\ pending = NoRequest
  /\ pc = "idle"
  /\ run_in = NoRun
  /\ shown = NotShown
  /\ last_run = NoLastRun
  /\ mask_source = NoImage
  /\ other_pc = "idle"

NextPost == Postprocess \/ Reapply \/ ReapplyArray

SpecPost == InitPost /\ [][NextPost]_vars

\* ---------------------------------------------------------------- the claims

\* a[idx] for a tuple idx of 0-based indices, one per axis (row-major order).
RECURSIVE Offset(_, _)
Offset(shape, idx) ==
  IF Len(shape) = 0 THEN 0
  ELSE Offset(SubSeq(shape, 1, Len(shape) - 1), SubSeq(idx, 1, Len(idx) - 1))
         * shape[Len(shape)] + idx[Len(idx)]

Element(arr, idx) == arr.data[Offset(arr.shape, idx) + 1]

\* The pixel of row i, column j of a one-band image.
Pixel(image, i, j) == image.px[i * image.size[1] + j + 1][1]

Accepted(mask) == Len(mask.shape) \in {2, 3, 4}

\* The height and the width of an accepted tensor: (h,w), (h,w,c), (b,h,w,c).
HeightOf(mask) == IF Len(mask.shape) = 4 THEN mask.shape[2] ELSE mask.shape[1]
WidthOf(mask) == IF Len(mask.shape) = 4 THEN mask.shape[3] ELSE mask.shape[2]

\* The element of an accepted tensor that decides pixel (i,j): m[0,i,j,0],
\* m[i,j,0] or m[i,j].
Deciding(mask, i, j) ==
  IF Len(mask.shape) = 4 THEN Element(mask, <<0, i, j, 0>>)
  ELSE IF Len(mask.shape) = 3 THEN Element(mask, <<i, j, 0>>)
  ELSE Element(mask, <<i, j>>)

\* C1: preprocess_image returns an array of shape (1, target_height,
\* target_width, 3) for every image (one, three or four channels) and every
\* target (height, width).
C1_OutputShape ==
  pre_result # None => pre_result.shape = <<1, pre_target[1], pre_target[2], 3>>

\* C8: every value of the array preprocess_image returns lies in [0,1].
C8_ValuesInUnitRange ==
  pre_result # None =>
    \A k \in 1..Len(pre_result.data) :
      0 <= pre_result.data[k] /\ pre_result.data[k] <= pre_result.den

\* C2: for a tensor of 2, 3 or 4 axes postprocess_mask returns a one-band image
\* of 2 axes, of shape (h,w), whose pixels are all 0 or 255.
C2_MaskShapeAndValues ==
  (post_result # None /\ Accepted(post_mask)) =>
    /\ post_result.ok
    /\ Bands(post_result.value.mode) = 1
    /\ post_result.value.size = <<WidthOf(post_mask), HeightOf(post_mask)>>
    /\ np_array(post_result.value).shape = <<HeightOf(post_mask), WidthOf(post_mask)>>
    /\ Len(post_result.value.px) = HeightOf(post_mask) * WidthOf(post_mask)
    /\ \A k \in 1..Len(post_result.value.px) : post_result.value.px[k][1] \in {0, 255}

C2_Witness ==
  /\ post_result # None
  /\ Len(post_mask.shape) = 4
  /\ post_mask.shape[2] # post_mask.shape[3]
  /\ post_result.ok
  /\ {post_result.value.px[k][1] : k \in 1..Len(post_result.value.px)} = {0, 255}

\* C3: pixel (i,j) of the mask is 255 exactly when the element of the first batch
\* entry and first channel at (i,j) is strictly greater than 0.5, and 0
\* otherwise; 0.5 itself gives 0 and no other channel or batch entry matters.
C3_StrictThresholdFirstChannel ==
  (post_result # None /\ Accepted(post_mask)) =>
    /\ post_result.ok
    /\ \A i \in 0..(HeightOf(post_mask) - 1) : \A j \in 0..(WidthOf(post_mask) - 1) :
         Pixel(post_result.value, i, j)
           = IF 2 * Deciding(post_mask, i, j) > post_mask.den THEN 255 ELSE 0

C3_Witness ==
  /\ post_result # None
  /\ post_mask.shape = <<1, 1, 2, 2>>
  /\ post_mask.data = <<5, 6, 6, 4>>
  /\ post_result.ok
  /\ post_result.value.px = << <<0>>, <<255>> >>

\* C4: a tensor whose axis count is not 2, 3 or 4 makes postprocess_mask raise
\* the invalid-shape error, which carries the offending shape (one entry per
\* axis), and no image is returned; a tensor of 2, 3 or 4 axes never raises it.
C4_InvalidShapeError ==
  post_result # None =>
    IF Accepted(post_mask)
    THEN post_result.ok
    ELSE /\ ~post_result.ok
         /\ "value" \notin DOMAIN post_result
         /\ post_result.error = "ValueError"
         /\ post_result.message = <<"Unexpected mask shape: ", post_mask.shape>>
         /\ Len(post_result.message[2]) = Len(post_mask.shape)

C4_Witness ==
  /\ post_result # None
  /\ Len(post_mask.shape) = 5
  /\ ~post_result.ok
  /\ post_result.error = "ValueError"

\* C5, as stated: postprocess_mask applied to the image postprocess_mask returned
\* succeeds and returns an equal image.
C5_IdempotentOnOutput ==
  post_again # None => (post_again.ok /\ post_again.value = post_result.value)

\* C5, amended: postprocess_mask applied to the pixel array (np.array) of the
\* image it returned succeeds and returns an image equal to the first.
C5_IdempotentOnOutputArray ==
  post_again_array # None =>
    (post_again_array.ok /\ post_again_array.value = post_result.value)

C5_Witness ==
  /\ post_again_array # None
  /\ post_again_array.ok
  /\ {post_again_array.value.px[k][1] : k \in 1..Len(post_again_array.value.px)} = {0, 255}

\* C6: a click on Generate Mask, after the image was chosen by a sample button or
\* by an upload, reruns the script with the image still selected; the handler
\* runs on it, and when it completes the slot holds the new mask, which is shown.
\* The click is the only event of its rerun and was made on a finished page that
\* showed the image and the button.
C6_GenerateAfterSelection ==
  last_run.settled =>
    /\ shown.original # NoImage
    /\ last_run.handler # "not_run"
    /\ (last_run.handler = "ok" =>
          /\ session_state.generated_mask # None
          /\ mask_source = shown.original
          /\ (last_run.finished => shown.mask = session_state.generated_mask))

\* C7, as stated: the model file is read from disk once in the process.
C7_ArtifactLoadedOnce ==
  disk_loads.height + disk_loads.segmentation <= 1

\* C7, amended: each cached loader runs its load at most once in the process, in
\* the first run of any session to reach it, so model.h5 is read at most twice,
\* once by each loader; every later call, of any run of any session, finds the
\* handle in the cache and loads nothing. A run that has passed a loader holds
\* its handle.
C7_EachLoaderLoadsOnce ==
  /\ disk_loads.height <= 1
  /\ disk_loads.segmentation <= 1
  /\ height_cache = (IF disk_loads.height = 1
                     THEN load_model("model.h5", "load_height_model") ELSE None)
  /\ segmentation_cache = (IF disk_loads.segmentation = 1
                           THEN load_model("model.h5", "load_segmentation_model") ELSE None)
  /\ pc \in {"load_segmentation", "page", "display"} => disk_loads.height = 1
  /\ pc \in {"page", "display"} => disk_loads.segmentation = 1
  /\ shown.page # "none" => disk_loads = [height |-> 1, segmentation |-> 1]

C7_Witness ==
  /\ session = 2
  /\ pc = "idle"
  /\ last_run.handler = "ok"
  /\ disk_loads = [height |-> 1, segmentation |-> 1]

\* C9: the slot does not exist when a session starts and is None from the first
\* initialisation on; after that it changes only in a run whose Generate Mask
\* handler runs preprocess, predict and postprocess to the end. Every other
\* step, the initialisation at the top of a rerun included, leaves it as it is.
C9_SlotFrame ==
  [][ /\ (session' # session) => session_state' = <<>>
      /\ (session' = session /\ session_state' # session_state) =>
           \/ (session_state = <<>> /\ session_state' = [generated_mask |-> None])
           \/ (pc = "page" /\ last_run'.handler = "ok") ]_vars

C9_Witness ==
  /\ last_run.handler = "postprocess"
  /\ session_state.generated_mask # None

\* C10: whenever a Generated Mask is shown next to an Original Image, the mask
\* was generated from that image.
C10_MaskOfShownImage ==
  (shown.original # NoImage /\ shown.mask # None) => mask_source = shown.original

====
